---- MODULE Spec2Model ----
(***************************************************************************)
(* The miner actor of go-filecoin (actor/builtin/miner/miner.go) as a      *)
(* state machine.  One persisted State, mutated only by the exported       *)
(* methods; every method call is one atomic action.  The VM context of a   *)
(* call (sender, chain height, gas meter, storage-market send, PoSt        *)
(* verifier) is the record ctx, whose fields are the environment's answers *)
(* for that call.                                                          *)
(***************************************************************************)
EXTENDS Integers, Sequences, FiniteSets, TLC

VARIABLES
    state,   \* the persisted State (miner.go:76-109)
    height,  \* the chain height the next message executes at
    pre,     \* the persisted State before the last method call
    last,    \* the last method call: its context, arguments and outcome
    hist     \* history: counts of successful calls, first commit height

vars == <<state, height, pre, last, hist>>

----------------------------------------------------------------------------
(* Bounds of the model *)

MaxChanges == 3       \* successful calls of mutating methods explored
MaxPeriods == 1       \* chain heights span this many proving periods

----------------------------------------------------------------------------
(* Program constants *)

MaximumPublicKeySize == 100
PoStProofLength == 192
ProvingPeriodBlocks == 20000
CommitmentBytesLen == 32
GasCost == 100

ErrPublicKeyTooBig == 33
ErrInvalidSector == 34
ErrSectorCommitted == 35
ErrStoragemarketCallFailed == 36
ErrCallerUnauthorized == 37
ErrInsufficientPledge == 38
ErrInvalidPoSt == 39
\* exec.ErrInsufficientGas: the VM's exit code for a refused gas charge
ErrInsufficientGas == 36

----------------------------------------------------------------------------
(* Values *)

\* An optional value (a Go pointer that may be nil): <<>> or <<v>>.
Nil == <<>>
Some(v) == <<v>>

\* A byte slice is kept run-length encoded: a sequence of runs <<n, b>>, n > 0
\* bytes equal to b, adjacent runs holding different bytes.
\* Bytes(n, b): the slice of n bytes, all equal to b.
Bytes(n, b) == IF n = 0 THEN <<>> ELSE << <<n, b>> >>

\* len(s)
RECURSIVE ByteLen(_)
ByteLen(s) == IF s = <<>> THEN 0 ELSE Head(s)[1] + ByteLen(Tail(s))

\* s[:n] for n <= len(s)
RECURSIVE TakeBytes(_, _)
TakeBytes(s, n) ==
    IF n = 0 \/ s = <<>> THEN <<>>
    ELSE IF Head(s)[1] >= n THEN << <<n, Head(s)[2]>> >>
    ELSE <<Head(s)>> \o TakeBytes(Tail(s), n - Head(s)[1])

\* s followed by n zero bytes
ZeroPad(s, n) ==
    IF n = 0 THEN s
    ELSE IF s # <<>> /\ s[Len(s)][2] = 0
    THEN [s EXCEPT ![Len(s)] = <<@[1] + n, 0>>]
    ELSE Append(s, <<n, 0>>)

\* errors: nil, a coded revert error, a plain revert error, or another error
NoErr == [kind |-> "nil", code |-> 0, msg |-> ""]
\* Errors[code] (miner.go:55-63): the coded revert error of that code
Errors(code) == [kind |-> "coded", code |-> code, msg |-> ""]
\* errors.NewRevertError / NewRevertErrorf: a revert error without a code
NewRevertError(msg) == [kind |-> "revert", code |-> 0, msg |-> msg]
\* errors.RevertErrorWrap: a revert error wrapping another error
RevertErrorWrap(msg) == [kind |-> "revert", code |-> 0, msg |-> msg]
\* errors.NewFaultError / NewFaultErrorf
NewFaultError(msg) == [kind |-> "fault", code |-> 0, msg |-> msg]
\* an error of the VM's send machinery
SendError == [kind |-> "send", code |-> 0, msg |-> "send failed"]

\* errors.CodeError: the code of a coded revert error, 1 for any other error
CodeError(err) == IF err.kind = "coded" THEN err.code ELSE 1

\* a check that lets every integer pass
IsUint64Any(x) == TRUE

\* big.Int.IsUint64: 0 <= x < 2^64.  Every integer the model checker can
\* represent is below 2^64, so within the model only the sign decides.
IsUint64(x) == x >= 0

\* BlockHeight.LessThan, LessEqual, Add (arbitrary precision: no wrap-around)
LessThan(a, b) == a < b
LessEqual(a, b) == a <= b
Add(a, b) == a + b

\* strconv.FormatUint(n, 10): the decimal digits of n, most significant first
RECURSIVE FormatUint(_)
FormatUint(n) ==
    IF n < 10 THEN <<n>> ELSE Append(FormatUint(n \div 10), n % 10)

\* a Go map: a function on the set of its keys
EmptyMap == [k \in {} |-> Nil]
MapPut(m, k, v) == [x \in (DOMAIN m) \cup {k} |-> IF x = k THEN v ELSE m[x]]

\* copy(dst[:], src) into a zeroed array of CommitmentBytesLen bytes
CopyCommitment(src) ==
    IF ByteLen(src) >= CommitmentBytesLen
    THEN TakeBytes(src, CommitmentBytesLen)
    ELSE ZeroPad(src, CommitmentBytesLen - ByteLen(src))

----------------------------------------------------------------------------
(* Inputs of the model *)

OwnerAddr == "owner"
Addresses == {OwnerAddr, "other"}
\* the senders of the accessors' messages: no accessor reads the sender
Readers == {"other"}
\* the peer ids offered to updatePeerID; the miner starts with "peer0"
PeerIDs == {"peer1"}
Prices == {5}
AskIDs == {0, 1}
\* expiry deltas: one that does not fit 64 bits, none, one block, two blocks
Deltas == {-1, 0, 1, 2}
\* chain heights: two at the start, then one just past each period boundary
Heights == {0, 1} \cup {k * ProvingPeriodBlocks + 1 : k \in 1..MaxPeriods}
SectorIDs == {9, 10}
GoodComm == Bytes(CommitmentBytesLen, 1)
OtherComm == Bytes(CommitmentBytesLen, 2)
ShortComm == Bytes(CommitmentBytesLen - 1, 1)
LongComm == Bytes(CommitmentBytesLen + 1, 1)
\* (commD, commR, commRStar) triples offered to commitSector
CommTriples ==
    { <<GoodComm, OtherComm, GoodComm>>, <<OtherComm, GoodComm, GoodComm>>,
      <<ShortComm, OtherComm, GoodComm>>, <<GoodComm, LongComm, GoodComm>>,
      <<GoodComm, OtherComm, ShortComm>> }
Proofs == {Bytes(PoStProofLength, 3), Bytes(PoStProofLength - 1, 3)}

----------------------------------------------------------------------------
(* State construction *)

\* NewState (miner.go:117-128)
NewState(owner, key, pledge, pid, collateral) ==
    [Owner |-> owner, PeerID |-> pid, PublicKey |-> key,
     PledgeSectors |-> pledge, Collateral |-> collateral,
     Asks |-> <<>>, NextAskID |-> 0,
     SectorCommitments |-> EmptyMap,
     LastUsedSectorID |-> 0,
     ProvingPeriodStart |-> Nil, LastPoSt |-> Nil,
     Power |-> 0]

\* InitializeState (miner.go:131-154): the error it returns
InitializeState(minerState) ==
    IF ByteLen(minerState.PublicKey) > MaximumPublicKeySize
    THEN Errors(ErrPublicKeyTooBig)
    ELSE NoErr

----------------------------------------------------------------------------
(* The prelude and the state bridge shared by the methods *)

\* the outcome of a method call: the State persisted after it, the exit
\* code and error it returns, its return value, and what it did on the way
\* (loads of the persisted State, verifier calls and the request handed to
\* the verifier, cross-actor sends, and the amounts it asked the gas meter
\* for)
Outcome(st, code, err, out, reads, verifies, sends) ==
    [st |-> st, code |-> code, err |-> err, out |-> out, reads |-> reads,
     verifies |-> verifies, request |-> Nil, sends |-> sends,
     charged |-> <<GasCost>>]

\* ctx.Charge(100) refused: return exec.ErrInsufficientGas at once
GasRefused(st) ==
    Outcome(st, ErrInsufficientGas, RevertErrorWrap("Insufficient gas"),
            Nil, 0, 0, 0)

\* the result of a callback run on the loaded State st
Callback(st, out, err, verifies, sends) ==
    [st |-> st, out |-> out, err |-> err, verifies |-> verifies,
     sends |-> sends]

\* actor.WithState: load the State, run the callback on it; persist the
\* mutated State only when the callback returns no error
WithState(st, cb) ==
    [st |-> IF cb.err.kind = "nil" THEN cb.st ELSE st,
     out |-> IF cb.err.kind = "nil" THEN cb.out ELSE Nil,
     err |-> cb.err, verifies |-> cb.verifies, sends |-> cb.sends]

\* the tail of every method built on WithState:
\*   if err != nil { return ..., errors.CodeError(err), err }
\*   return out, 0, nil
Finish(r) ==
    IF r.err.kind # "nil"
    THEN Outcome(r.st, CodeError(r.err), r.err, Nil, 1, r.verifies, r.sends)
    ELSE Outcome(r.st, 0, NoErr, r.out, 1, r.verifies, r.sends)

\* a sender that lets every message pass as the owner's
AuthorizedAny(st, ctx) == TRUE

\* miner.go:231, 424, 515, 588: ctx.Message().From == state.Owner
Authorized(st, ctx) == ctx.From = st.Owner

----------------------------------------------------------------------------
(* Ask book *)

\* a filter that keeps the asks expiring at the current height
FilterExpiredLate(asks, h) == SelectSeq(asks, LAMBDA a : LessEqual(h, a.Expiry))

\* miner.go:238-245: filter out expired asks, keeping the order
FilterExpired(asks, h) == SelectSeq(asks, LAMBDA a : LessThan(h, a.Expiry))

\* an ask that always gets id 0
NewAskIDZero(price, h, expiry, id) ==
    [Price |-> price, Expiry |-> Add(h, expiry), ID |-> 0]

\* miner.go:250-256: the ask appended by addAsk
NewAsk(price, h, expiry, id) ==
    [Price |-> price, Expiry |-> Add(h, expiry), ID |-> id]

\* the id handed out with the counter left as it was
TakeAskIDNoIncrement(st) == [id |-> st.NextAskID, next |-> st.NextAskID]

\* miner.go:235-236: the id handed out, and the counter after it
TakeAskID(st) == [id |-> st.NextAskID, next |-> st.NextAskID + 1]

\* the callback of AddAsk (miner.go:230-259)
AddAskBody(st, ctx, h, price, expiry) ==
    IF ~Authorized(st, ctx)
    THEN Callback(st, Nil, Errors(ErrCallerUnauthorized), 0, 0)
    ELSE
        LET t == TakeAskID(st)
            st1 == [st EXCEPT !.NextAskID = t.next,
                              !.Asks = FilterExpired(@, h)]
        IN  IF ~IsUint64(expiry)
            THEN Callback(st1, Nil, NewRevertError("expiry was invalid"), 0, 0)
            ELSE Callback(
                    [st1 EXCEPT !.Asks = Append(@, NewAsk(price, h, expiry, t.id))],
                    Some(t.id), NoErr, 0, 0)

\* AddAsk (miner.go:223-270)
AddAsk(st, ctx, h, price, expiry) ==
    IF ~ctx.gasOK THEN GasRefused(st)
    ELSE Finish(WithState(st, AddAskBody(st, ctx, h, price, expiry)))

\* GetAsks (miner.go:274-300)
GetAsks(st, ctx) ==
    IF ~ctx.gasOK THEN GasRefused(st)
    ELSE Finish(WithState(st,
        IF \E i \in 1..Len(st.Asks) : ~IsUint64(st.Asks[i].ID)
        THEN Callback(st, Nil,
                 NewFaultError("miner ask has invalid ID (bad invariant)"), 0, 0)
        ELSE Callback(st, [i \in 1..Len(st.Asks) |-> st.Asks[i].ID],
                 NoErr, 0, 0)))

\* miner.go:310-316: the first ask with the given id, or nil
FindAsk(asks, askid) ==
    LET hits == {i \in 1..Len(asks) : asks[i].ID = askid}
    IN  IF hits = {} THEN Nil
        ELSE Some(asks[CHOOSE i \in hits : \A j \in hits : i <= j])

\* GetAsk (miner.go:303-335); the serialized ask is kept as the ask itself
GetAsk(st, ctx, askid) ==
    IF ~ctx.gasOK THEN GasRefused(st)
    ELSE Finish(WithState(st,
            Callback(st, FindAsk(st.Asks, askid), NoErr, 0, 0)))

----------------------------------------------------------------------------
(* Plain accessors *)

\* GetOwner (miner.go:338-357)
GetOwner(st, ctx) ==
    IF ~ctx.gasOK THEN GasRefused(st)
    ELSE Finish(WithState(st, Callback(st, st.Owner, NoErr, 0, 0)))

\* GetLastUsedSectorID (miner.go:360-378)
GetLastUsedSectorID(st, ctx) ==
    IF ~ctx.gasOK THEN GasRefused(st)
    ELSE Finish(WithState(st, Callback(st, st.LastUsedSectorID, NoErr, 0, 0)))

\* GetSectorCommitments (miner.go:381-400)
GetSectorCommitments(st, ctx) ==
    IF ~ctx.gasOK THEN GasRefused(st)
    ELSE Finish(WithState(st, Callback(st, st.SectorCommitments, NoErr, 0, 0)))

\* GetKey (miner.go:465-484)
GetKey(st, ctx) ==
    IF ~ctx.gasOK THEN GasRefused(st)
    ELSE Finish(WithState(st, Callback(st, st.PublicKey, NoErr, 0, 0)))

\* GetPeerID (miner.go:487-504): reads the storage chunk itself
GetPeerID(st, ctx) ==
    IF ~ctx.gasOK THEN GasRefused(st)
    ELSE Outcome(st, 0, NoErr, st.PeerID, 1, 0, 0)

\* GetPledge (miner.go:531-550)
GetPledge(st, ctx) ==
    IF ~ctx.gasOK THEN GasRefused(st)
    ELSE Finish(WithState(st, Callback(st, st.PledgeSectors, NoErr, 0, 0)))

\* GetPower (miner.go:553-572)
GetPower(st, ctx) ==
    IF ~ctx.gasOK THEN GasRefused(st)
    ELSE Finish(WithState(st, Callback(st, st.Power, NoErr, 0, 0)))

\* GetProvingPeriodStart (miner.go:640-655): reads the storage chunk itself
GetProvingPeriodStart(st, ctx) ==
    IF ~ctx.gasOK THEN GasRefused(st)
    ELSE Outcome(st, 0, NoErr, st.ProvingPeriodStart, 1, 0, 0)

----------------------------------------------------------------------------
(* Peer id *)

\* a callback that takes a peer id from any sender
UpdatePeerIDBodyAnyone(st, ctx, pid) ==
    Callback([st EXCEPT !.PeerID = pid], Nil, NoErr, 0, 0)

\* the callback of UpdatePeerID (miner.go:513-522)
UpdatePeerIDBody(st, ctx, pid) ==
    IF ~Authorized(st, ctx)
    THEN Callback(st, Nil, Errors(ErrCallerUnauthorized), 0, 0)
    ELSE Callback([st EXCEPT !.PeerID = pid], Nil, NoErr, 0, 0)

\* UpdatePeerID (miner.go:507-528)
UpdatePeerID(st, ctx, pid) ==
    IF ~ctx.gasOK THEN GasRefused(st)
    ELSE Finish(WithState(st, UpdatePeerIDBody(st, ctx, pid)))

----------------------------------------------------------------------------
(* Sector commitment *)

\* a first commitment that starts no proving period
StartProvingPeriodNever(st, h) == st

\* every commitment starts a proving period
StartProvingPeriodAlways(st, h) == [st EXCEPT !.ProvingPeriodStart = Some(h)]

\* miner.go:433-435: the first commitment starts the first proving period
StartProvingPeriod(st, h) ==
    IF st.Power = 0 THEN [st EXCEPT !.ProvingPeriodStart = Some(h)] ELSE st

\* power left as it was
IncPowerSkipped(st) == st

\* miner.go:436-437: power grows by inc = 1
IncPower(st) == [st EXCEPT !.Power = @ + 1]

\* the commitments recorded in a map emptied first
RecordCommitmentsAlone(st, sectorID, commD, commR, commRStar) ==
    [st EXCEPT
        !.LastUsedSectorID = sectorID,
        !.SectorCommitments =
            MapPut(EmptyMap, FormatUint(sectorID),
                   [CommD |-> CopyCommitment(commD),
                    CommR |-> CopyCommitment(commR),
                    CommRStar |-> CopyCommitment(commRStar)])]

\* miner.go:438-447: record the commitments under the stringified sector id
RecordCommitments(st, sectorID, commD, commR, commRStar) ==
    [st EXCEPT
        !.LastUsedSectorID = sectorID,
        !.SectorCommitments =
            MapPut(@, FormatUint(sectorID),
                   [CommD |-> CopyCommitment(commD),
                    CommR |-> CopyCommitment(commR),
                    CommRStar |-> CopyCommitment(commRStar)])]

\* a send whose failure goes unnoticed
UpdatePowerErrorIgnored(ctx) == NoErr

\* miner.go:448-455: ctx.Send(StorageMarketAddress, "updatePower", inc)
UpdatePowerError(ctx) ==
    CASE ctx.send = "error" -> SendError
      [] ctx.send = "nonzero" -> Errors(ErrStoragemarketCallFailed)
      [] OTHER -> NoErr

\* a lookup that never finds the sector
AlreadyCommittedNever(st, sectorID) == FALSE

\* miner.go:428: the sector id, stringified, is a key of SectorCommitments
AlreadyCommitted(st, sectorID) ==
    FormatUint(sectorID) \in DOMAIN st.SectorCommitments

\* the callback of CommitSector (miner.go:422-456)
CommitSectorBody(st, ctx, h, sectorID, commD, commR, commRStar) ==
    IF ~Authorized(st, ctx)
    THEN Callback(st, Nil, Errors(ErrCallerUnauthorized), 0, 0)
    ELSE IF AlreadyCommitted(st, sectorID)
    THEN Callback(st, Nil, Errors(ErrSectorCommitted), 0, 0)
    ELSE Callback(
            RecordCommitments(IncPower(StartProvingPeriod(st, h)),
                              sectorID, commD, commR, commRStar),
            Nil, UpdatePowerError(ctx), 0, 1)

\* miner.go:408-416: the size checks, which return exit code 0 and an error
CommitSizeError(commD, commR, commRStar) ==
    IF ByteLen(commD) # CommitmentBytesLen
    THEN NewRevertError("invalid sized commD")
    ELSE IF ByteLen(commR) # CommitmentBytesLen
    THEN NewRevertError("invalid sized commR")
    ELSE IF ByteLen(commRStar) # CommitmentBytesLen
    THEN NewRevertError("invalid sized commRStar")
    ELSE NoErr

\* CommitSector (miner.go:404-462); proof is accepted and never used
CommitSector(st, ctx, h, sectorID, commD, commR, commRStar, proof) ==
    IF ~ctx.gasOK THEN GasRefused(st)
    ELSE IF CommitSizeError(commD, commR, commRStar).kind # "nil"
    THEN Outcome(st, 0, CommitSizeError(commD, commR, commRStar), Nil, 0, 0, 0)
    ELSE Finish(WithState(st,
            CommitSectorBody(st, ctx, h, sectorID, commD, commR, commRStar)))

----------------------------------------------------------------------------
(* Proof of spacetime *)

\* state.ProvingPeriodStart.Add on a nil ProvingPeriodStart dereferences
\* nil: the call panics, the callback never returns and nothing is persisted
NilDereference == [kind |-> "panic", code |-> 0, msg |-> "nil pointer dereference"]

\* for _, v := range m: Go visits the keys of a map in an order the language
\* leaves unspecified and the runtime varies from one loop to the next; an
\* order is any arrangement of the keys
MapOrders(m) ==
    {o \in [1..Cardinality(DOMAIN m) -> DOMAIN m] :
        \A i, j \in DOMAIN o : i # j => o[i] # o[j]}

\* miner.go:592-596: the CommR of every committed sector, appended in the
\* order the range loop visits the map
CommRs(st, order) ==
    [i \in 1..Len(order) |-> st.SectorCommitments[order[i]].CommR]

\* miner.go:603-608: the request handed to the verifier (its challenge seed
\* is all zeroes on every call and is left out)
VerifyPoSTRequest(commRs, proof) ==
    [CommRs |-> commRs, Faults |-> <<>>, Proof |-> proof]

\* a verifier that finds every proof valid
VerifyPoSTAccepting(ctx, req) == NoErr

\* miner.go:610-616: the verifier's answer for this request
VerifyPoST(ctx, req) ==
    CASE ctx.verify = "error" -> RevertErrorWrap("failed to verify PoSt")
      [] ctx.verify = "invalid" -> Errors(ErrInvalidPoSt)
      [] OTHER -> NoErr

\* miner.go:619: provingPeriodEnd
ProvingPeriodEnd(st) == Add(st.ProvingPeriodStart[1], ProvingPeriodBlocks)

\* a strict deadline, and no deadline at all
InTimeStrict(h, provingPeriodEnd) == LessThan(h, provingPeriodEnd)
InTimeAlways(h, provingPeriodEnd) == TRUE
\* a deadline one proving period after the end of the window
InTimeGrace(h, provingPeriodEnd) ==
    LessEqual(h, Add(provingPeriodEnd, ProvingPeriodBlocks))

\* miner.go:621: whether the PoSt came in time
InTime(h, provingPeriodEnd) == LessEqual(h, provingPeriodEnd)

\* miner.go:622-623: slide the window, note the height of the PoSt
AcceptPoSt(st, h) ==
    [st EXCEPT !.ProvingPeriodStart = Some(ProvingPeriodEnd(st)),
               !.LastPoSt = Some(h)]

\* the callback of SubmitPoSt (miner.go:586-631)
SubmitPoStBody(st, ctx, h, proof, order) ==
    IF ~Authorized(st, ctx)
    THEN Callback(st, Nil, Errors(ErrCallerUnauthorized), 0, 0)
    ELSE IF VerifyPoST(ctx, VerifyPoSTRequest(CommRs(st, order), proof)).kind # "nil"
    THEN Callback(st, Nil,
            VerifyPoST(ctx, VerifyPoSTRequest(CommRs(st, order), proof)), 1, 0)
    ELSE IF st.ProvingPeriodStart = Nil
    THEN Callback(st, Nil, NilDereference, 1, 0)
    ELSE IF InTime(h, ProvingPeriodEnd(st))
    THEN Callback(AcceptPoSt(st, h), Nil, NoErr, 1, 0)
    ELSE Callback(st, Nil,
            NewRevertError("submitted PoSt late, need to pay a fee"), 1, 0)

\* SubmitPoSt with the size check ahead of the gas charge
SubmitPoStSizeFirst(st, ctx, h, proof, order) ==
    IF ByteLen(proof) # PoStProofLength
    THEN Outcome(st, 0, NewRevertError("invalid sized proof"), Nil, 0, 0, 0)
    ELSE IF ~ctx.gasOK THEN GasRefused(st)
    ELSE Finish(WithState(st, SubmitPoStBody(st, ctx, h, proof, order)))

\* the outcome r of a SubmitPoSt, with the request its verifier call was
\* handed
WithRequest(r, st, proof, order) ==
    [r EXCEPT !.request =
        IF r.verifies = 0 THEN Nil
        ELSE Some(VerifyPoSTRequest(CommRs(st, order), proof))]

\* SubmitPoSt (miner.go:576-637); order is the order in which this call's
\* range loop visits SectorCommitments
SubmitPoSt(st, ctx, h, proof, order) ==
    IF ~ctx.gasOK THEN GasRefused(st)
    ELSE IF ByteLen(proof) # PoStProofLength
    THEN Outcome(st, 0, NewRevertError("invalid sized proof"), Nil, 0, 0, 0)
    ELSE WithRequest(
            Finish(WithState(st, SubmitPoStBody(st, ctx, h, proof, order))),
            st, proof, order)

----------------------------------------------------------------------------
(* The state machine *)

Ctx(from, gasOK, send, verify) ==
    [From |-> from, gasOK |-> gasOK, send |-> send, verify |-> verify]

\* the part of the context a call consulted: the answer of a send or of a
\* verification that was never made is not part of the call
Consulted(ctx, r) ==
    [ctx EXCEPT !.send = IF r.sends = 0 THEN "unused" ELSE @,
                !.verify = IF r.verifies = 0 THEN "unused" ELSE @]

\* a call succeeded: it returned a nil error
Succeeded(r) == r.err.kind = "nil"

\* the record of a step that is no method call
NoCall(what, h) ==
    [method |-> what, ctx |-> Ctx(OwnerAddr, TRUE, "unused", "unused"),
     h |-> h, arg |-> <<>>, code |-> 0, err |-> NoErr, out |-> Nil,
     reads |-> 0, verifies |-> 0, request |-> Nil, sends |-> 0,
     charged |-> <<>>]

InitStates ==
    {ns \in {NewState(OwnerAddr, key, 10, "peer0", 100) :
                key \in {Bytes(MaximumPublicKeySize, 7),
                         Bytes(MaximumPublicKeySize + 1, 7)}} :
        InitializeState(ns) = NoErr}

Init ==
    /\ state \in InitStates
    /\ height = 0
    /\ pre = state
    /\ last = NoCall("init", 0)
    /\ hist = [addAskOk |-> 0, commitOk |-> 0, postOk |-> 0, peerOk |-> 0,
               firstCommit |-> Nil, idle |-> FALSE]

\* the successful calls of mutating methods so far
Changes == hist.addAskOk + hist.commitOk + hist.postOk + hist.peerOk

\* the methods that write the State
Mutating == {"addAsk", "commitSector", "updatePeerID", "submitPoSt"}

\* a call that may have written the State: a mutating method that succeeded
Changing(method, r) == method \in Mutating /\ Succeeded(r)

\* One method call with outcome r, and its bookkeeping.  At most MaxChanges
\* changing calls are explored.  A call that fails or only reads leaves the
\* State, the height and the counters as they were and is remembered in
\* last alone: every step that can follow it can follow the state it was
\* made in, with the same result.  So a behaviour is followed up to its
\* first such call (hist.idle) and no further; what comes after it is
\* explored from the state before it.
Call(method, ctx, arg, r) ==
    /\ ~hist.idle
    /\ Changing(method, r) => Changes < MaxChanges
    /\ state' = r.st
    /\ pre' = state
    /\ last' = [method |-> method, ctx |-> Consulted(ctx, r), h |-> height,
                arg |-> arg, code |-> r.code, err |-> r.err, out |-> r.out,
                reads |-> r.reads, verifies |-> r.verifies,
                request |-> r.request, sends |-> r.sends,
                charged |-> r.charged]
    /\ hist' =
        [hist EXCEPT
            !.addAskOk = IF method = "addAsk" /\ Succeeded(r) THEN @ + 1 ELSE @,
            !.commitOk = IF method = "commitSector" /\ Succeeded(r) THEN @ + 1 ELSE @,
            !.postOk = IF method = "submitPoSt" /\ Succeeded(r) THEN @ + 1 ELSE @,
            !.peerOk = IF method = "updatePeerID" /\ Succeeded(r) THEN @ + 1 ELSE @,
            !.firstCommit =
                IF method = "commitSector" /\ Succeeded(r) /\ @ = Nil
                THEN Some(height) ELSE @,
            !.idle = ~Changing(method, r)]
    /\ UNCHANGED height

\* the chain grows: later messages execute at a greater height
NextBlock ==
    /\ ~hist.idle
    /\ \E h \in Heights : h > height /\ height' = h
    /\ pre' = state
    /\ last' = NoCall("nextBlock", height')
    /\ UNCHANGED <<state, hist>>

CallAddAsk ==
    ~hist.idle /\ \E from \in Addresses, gasOK \in BOOLEAN :
      \E price \in Prices, expiry \in Deltas :
        LET ctx == Ctx(from, gasOK, "ok", "valid")
        IN  \E r \in {AddAsk(state, ctx, height, price, expiry)} :
                Call("addAsk", ctx, <<price, expiry>>, r)

CallGetAsks ==
    ~hist.idle /\ \E from \in Readers, gasOK \in BOOLEAN :
        LET ctx == Ctx(from, gasOK, "ok", "valid")
        IN  \E r \in {GetAsks(state, ctx)} : Call("getAsks", ctx, <<>>, r)

CallGetAsk ==
    ~hist.idle /\ \E from \in Readers, gasOK \in BOOLEAN, askid \in AskIDs :
        LET ctx == Ctx(from, gasOK, "ok", "valid")
        IN  \E r \in {GetAsk(state, ctx, askid)} : Call("getAsk", ctx, <<askid>>, r)

CallGetOwner ==
    ~hist.idle /\ \E from \in Readers, gasOK \in BOOLEAN :
        LET ctx == Ctx(from, gasOK, "ok", "valid")
        IN  \E r \in {GetOwner(state, ctx)} : Call("getOwner", ctx, <<>>, r)

CallGetLastUsedSectorID ==
    ~hist.idle /\ \E from \in Readers, gasOK \in BOOLEAN :
        LET ctx == Ctx(from, gasOK, "ok", "valid")
        IN  \E r \in {GetLastUsedSectorID(state, ctx)} : Call("getLastUsedSectorID", ctx, <<>>, r)

CallGetSectorCommitments ==
    ~hist.idle /\ \E from \in Readers, gasOK \in BOOLEAN :
        LET ctx == Ctx(from, gasOK, "ok", "valid")
        IN  \E r \in {GetSectorCommitments(state, ctx)} : Call("getSectorCommitments", ctx, <<>>, r)

CallCommitSector ==
    ~hist.idle /\ \E from \in Addresses, gasOK \in BOOLEAN :
     
      \E send \in {"ok", "nonzero", "error"}, sectorID \in SectorIDs,
         c \in CommTriples, proof \in {Bytes(PoStProofLength, 3)} :
        LET ctx == Ctx(from, gasOK, send, "valid")
        IN  \E r \in {CommitSector(state, ctx, height, sectorID,
                                    c[1], c[2], c[3], proof)} :
                Call("commitSector", ctx, <<sectorID, c[1], c[2], c[3]>>, r)

CallGetKey ==
    ~hist.idle /\ \E from \in Readers, gasOK \in BOOLEAN :
        LET ctx == Ctx(from, gasOK, "ok", "valid")
        IN  \E r \in {GetKey(state, ctx)} : Call("getKey", ctx, <<>>, r)

CallGetPeerID ==
    ~hist.idle /\ \E from \in Readers, gasOK \in BOOLEAN :
        LET ctx == Ctx(from, gasOK, "ok", "valid")
        IN  \E r \in {GetPeerID(state, ctx)} : Call("getPeerID", ctx, <<>>, r)

CallUpdatePeerID ==
    ~hist.idle /\ \E from \in Addresses, gasOK \in BOOLEAN :
      \E pid \in PeerIDs :
        LET ctx == Ctx(from, gasOK, "ok", "valid")
        IN  \E r \in {UpdatePeerID(state, ctx, pid)} :
                Call("updatePeerID", ctx, <<pid>>, r)

CallGetPledge ==
    ~hist.idle /\ \E from \in Readers, gasOK \in BOOLEAN :
        LET ctx == Ctx(from, gasOK, "ok", "valid")
        IN  \E r \in {GetPledge(state, ctx)} : Call("getPledge", ctx, <<>>, r)

CallGetPower ==
    ~hist.idle /\ \E from \in Readers, gasOK \in BOOLEAN :
        LET ctx == Ctx(from, gasOK, "ok", "valid")
        IN  \E r \in {GetPower(state, ctx)} : Call("getPower", ctx, <<>>, r)

CallSubmitPoSt ==
    ~hist.idle /\ \E from \in Addresses, gasOK \in BOOLEAN :
     
      \E verify \in {"valid", "invalid", "error"}, proof \in Proofs,
         order \in MapOrders(state.SectorCommitments) :
        LET ctx == Ctx(from, gasOK, "ok", verify)
        IN  \E r \in {SubmitPoSt(state, ctx, height, proof, order)} :
                Call("submitPoSt", ctx, <<proof>>, r)

CallGetProvingPeriodStart ==
    ~hist.idle /\ \E from \in Readers, gasOK \in BOOLEAN :
        LET ctx == Ctx(from, gasOK, "ok", "valid")
        IN  \E r \in {GetProvingPeriodStart(state, ctx)} : Call("getProvingPeriodStart", ctx, <<>>, r)

Next ==
    \/ NextBlock
    \/ CallAddAsk
    \/ CallGetAsks
    \/ CallGetAsk
    \/ CallGetOwner
    \/ CallGetLastUsedSectorID
    \/ CallGetSectorCommitments
    \/ CallCommitSector
    \/ CallGetKey
    \/ CallGetPeerID
    \/ CallUpdatePeerID
    \/ CallGetPledge
    \/ CallGetPower
    \/ CallSubmitPoSt
    \/ CallGetProvingPeriodStart

Spec == Init /\ [][Next]_vars

----------------------------------------------------------------------------
(* Properties *)

Methods ==
    {"addAsk", "getAsks", "getAsk", "getOwner", "getLastUsedSectorID",
     "getSectorCommitments", "commitSector", "getKey", "getPeerID",
     "updatePeerID", "getPledge", "getPower", "submitPoSt",
     "getProvingPeriodStart"}

\* the last step was a successful addAsk; the ask it appended
AddedAsk == last.method = "addAsk" /\ Succeeded(last)
NewestAsk == state.Asks[Len(state.Asks)]

\* C1: the k-th successful addAsk returns id k-1, whatever other calls are
\* interleaved, and a failed addAsk consumes no id: the counter always
\* equals the number of addAsk calls that succeeded so far.
C1_AskIdsSequential ==
    /\ state.NextAskID = hist.addAskOk
    /\ AddedAsk => last.out = Some(hist.addAskOk - 1)

\* the second successful addAsk, which returns id 1
C1_Witness == AddedAsk /\ hist.addAskOk = 2 /\ last.out = Some(1)

\* C2: after a successful addAsk(price, delta) at height H the new ask has
\* expiry = H + delta and expiry > H, for every delta that fits 64 bits.
C2_ExpiryAfterHeight ==
    AddedAsk =>
        /\ NewestAsk.Expiry = last.h + last.arg[2]
        /\ NewestAsk.Expiry > last.h

\* C3: in the State persisted by a successful addAsk at height H no stored
\* ask has expiry <= H.
C3_NoExpiredAskStored ==
    AddedAsk => \A i \in 1..Len(state.Asks) : state.Asks[i].Expiry > last.h

\* C4: in every reachable state power is the number of sector commitments.
C4_PowerIsCommitmentCount ==
    state.Power = Cardinality(DOMAIN state.SectorCommitments)

\* a commitSector rolled back after its send, with a sector committed before
C4_Witness ==
    /\ last.method = "commitSector" /\ last.sends = 1 /\ ~Succeeded(last)
    /\ state.Power = 1

\* C5: proving_period_start is unset exactly when no commitSector has
\* succeeded so far.
C5_ProvingStartIffCommitted ==
    (state.ProvingPeriodStart = Nil) <=> (hist.commitOk = 0)

\* the owner submits a PoSt the verifier accepts before any commitment
C5_Witness ==
    /\ last.method = "submitPoSt" /\ last.ctx.From = state.Owner
    /\ last.ctx.verify = "valid" /\ hist.commitOk = 0

\* the last step was a call of a mutating method, with gas, by a sender
\* that is not the owner
StrangerCall ==
    /\ last.method \in Mutating
    /\ last.ctx.gasOK
    /\ last.ctx.From # pre.Owner

\* the byte sizes of the last call's arguments pass the method's size checks
SizesPass ==
    CASE last.method = "commitSector" ->
            \A i \in 2..4 : ByteLen(last.arg[i]) = CommitmentBytesLen
      [] last.method = "submitPoSt" -> ByteLen(last.arg[1]) = PoStProofLength
      [] OTHER -> TRUE

C7_GasPrelude ==
    last.method \in Methods =>
        /\ last.charged = <<GasCost>>
        /\ ~last.ctx.gasOK =>
            /\ last.code = ErrInsufficientGas
            /\ last.err = RevertErrorWrap("Insufficient gas")
            /\ last.reads = 0 /\ last.verifies = 0 /\ last.sends = 0
            /\ state = pre

\* a submitPoSt with a proof of the wrong size, refused by the gas meter
C7_Witness ==
    /\ last.method = "submitPoSt" /\ ~last.ctx.gasOK
    /\ ByteLen(last.arg[1]) # PoStProofLength

\* the last step was the owner's submitPoSt, with gas, of a proof of the
\* right size that the verifier accepted, in a started proving period
OwnerPoSt ==
    /\ last.method = "submitPoSt"
    /\ last.ctx.gasOK
    /\ last.ctx.From = pre.Owner
    /\ ByteLen(last.arg[1]) = PoStProofLength
    /\ last.ctx.verify = "valid"
    /\ pre.ProvingPeriodStart # Nil

\* the deadline of the proving period the last call ran in
Deadline == pre.ProvingPeriodStart[1] + ProvingPeriodBlocks

\* C8: such a PoSt at a height h <= deadline succeeds with exit code 0,
\* sets proving_period_start to the deadline and last_post to h, and
\* leaves every other field as it was.
C8_PoStInTime ==
    (OwnerPoSt /\ last.h <= Deadline) =>
        /\ last.code = 0 /\ last.err = NoErr
        /\ state = [pre EXCEPT !.ProvingPeriodStart = Some(Deadline),
                               !.LastPoSt = Some(last.h)]

\* a PoSt accepted at the deadline itself
C8_Witness == OwnerPoSt /\ last.h = Deadline /\ Succeeded(last)

\* C9: such a PoSt at a height h > deadline reverts with the generic
\* revert code 1 and leaves the whole State as it was.
C9_PoStLate ==
    (OwnerPoSt /\ last.h > Deadline) =>
        /\ last.code = 1 /\ last.err.kind = "revert"
        /\ state = pre

\* a PoSt one block after the deadline
C9_Witness == OwnerPoSt /\ last.h = Deadline + 1

\* the last step was the owner's commitSector, with gas and commitments of
\* the right size, for a sector id committed before
DuplicateCommit ==
    /\ last.method = "commitSector"
    /\ last.ctx.gasOK
    /\ last.ctx.From = pre.Owner
    /\ SizesPass
    /\ FormatUint(last.arg[1]) \in DOMAIN pre.SectorCommitments

\* C10: a duplicate commitSector returns ErrSectorCommitted (35), leaves
\* the State as it was and sends nothing to the storage market.
C10_DuplicateCommit ==
    DuplicateCommit =>
        /\ last.code = ErrSectorCommitted
        /\ last.err = Errors(ErrSectorCommitted)
        /\ state = pre
        /\ last.sends = 0

\* a duplicate commitSector that brings other commitments than the stored
C10_Witness ==
    /\ DuplicateCommit
    /\ pre.SectorCommitments[FormatUint(last.arg[1])].CommD # last.arg[2]

\* the last step was the owner's commitSector, with gas and commitments of
\* the right size, for a sector id not committed before, whose updatePower
\* send failed or came back with a non-zero exit code
FailedUpdatePower ==
    /\ last.method = "commitSector"
    /\ last.ctx.gasOK
    /\ last.ctx.From = pre.Owner
    /\ SizesPass
    /\ FormatUint(last.arg[1]) \notin DOMAIN pre.SectorCommitments
    /\ last.ctx.send \in {"error", "nonzero"}

\* the same commitSector as the last call's, with a storage market that
\* answers exit code 0
CommitAgain ==
    CommitSector(state, [last.ctx EXCEPT !.send = "ok"], height, last.arg[1],
                 last.arg[2], last.arg[3], last.arg[4],
                 Bytes(PoStProofLength, 3))

\* C11: a commitSector whose updatePower send fails or returns non-zero is
\* rolled back whole: it fails, the persisted State (power, commitments,
\* last used sector id, proving period start) is as before the call, a
\* non-zero exit gives ErrStoragemarketCallFailed (36), and the same
\* sector id can be committed afterwards.
C11_UpdatePowerRollback ==
    FailedUpdatePower =>
        /\ ~Succeeded(last) /\ last.sends = 1
        /\ state = pre
        /\ last.ctx.send = "nonzero" =>
                /\ last.code = ErrStoragemarketCallFailed
                /\ last.err = Errors(ErrStoragemarketCallFailed)
        /\ Succeeded(CommitAgain)
        /\ FormatUint(last.arg[1]) \in DOMAIN CommitAgain.st.SectorCommitments

\* the first commitment of a miner, rolled back for a non-zero exit code:
\* power stays 0 and no proving period starts
C11_Witness ==
    /\ FailedUpdatePower /\ last.ctx.send = "nonzero"
    /\ pre.Power = 0 /\ state.ProvingPeriodStart = Nil

\* the last step was a commitSector or a submitPoSt, with gas, whose
\* arguments fail the method's size checks
SizeFailure ==
    /\ last.method \in {"commitSector", "submitPoSt"}
    /\ last.ctx.gasOK
    /\ ~SizesPass

\* C12: a commitSector with a commitment that is not 32 bytes long, and a
\* submitPoSt with a proof that is not 192 bytes long, end as a generic
\* revert: exit code 1, the State as it was, nothing sent.
C12_SizeFailureCode1 ==
    SizeFailure =>
        /\ last.code = 1 /\ last.err.kind = "revert"
        /\ state = pre
        /\ last.sends = 0

\* what the last call, a submitPoSt, yields when its range loop visits the
\* map in the order o
PoStInOrder(o) == SubmitPoSt(pre, last.ctx, last.h, last.arg[1], o)

\* C13: a run is determined by its start state, its messages and heights
\* and the answers of gas meter, storage market and verifier: whatever
\* order the range loop takes, a submitPoSt ends in the same State with the
\* same exit code and hands the verifier the same list of CommRs.
C13_Deterministic ==
    last.method = "submitPoSt" =>
        \A o \in MapOrders(pre.SectorCommitments) :
            /\ PoStInOrder(o).st = state
            /\ PoStInOrder(o).code = last.code
            /\ PoStInOrder(o).request = last.request

\* the last step was the owner's submitPoSt, with gas, of a proof of the
\* right size that the verifier did not find valid
RefusedByVerifier ==
    /\ last.method = "submitPoSt"
    /\ last.ctx.gasOK
    /\ last.ctx.From = pre.Owner
    /\ ByteLen(last.arg[1]) = PoStProofLength
    /\ last.ctx.verify \in {"invalid", "error"}

\* C14: a PoSt the verifier finds invalid returns ErrInvalidPoSt (39), at
\* whatever height it comes, and a PoSt the verifier fails on reverts; both
\* leave the whole State, proving_period_start and last_post included, as
\* it was.
C14_InvalidPoSt ==
    RefusedByVerifier =>
        /\ state = pre
        /\ last.verifies = 1
        /\ last.ctx.verify = "invalid" =>
                /\ last.code = ErrInvalidPoSt
                /\ last.err = Errors(ErrInvalidPoSt)
        /\ last.ctx.verify = "error" =>
                /\ last.code = 1 /\ last.err.kind = "revert"

\* an invalid PoSt that is late as well
C14_Witness ==
    /\ RefusedByVerifier /\ last.ctx.verify = "invalid"
    /\ pre.ProvingPeriodStart # Nil /\ last.h > Deadline

\* C15: owner, public_key, pledge_sectors and collateral keep the values
\* the miner was initialised with, the key no longer than 100 bytes;
\* updatePeerID writes peer_id alone, and only for the owner.
C15_IdentityFrame ==
    /\ \E s0 \in InitStates :
            /\ state.Owner = s0.Owner
            /\ state.PublicKey = s0.PublicKey
            /\ state.PledgeSectors = s0.PledgeSectors
            /\ state.Collateral = s0.Collateral
    /\ ByteLen(state.PublicKey) <= MaximumPublicKeySize
    /\ last.method = "updatePeerID" =>
            state = [pre EXCEPT !.PeerID =
                        IF last.ctx.gasOK /\ last.ctx.From = pre.Owner
                        THEN last.arg[1] ELSE @]

\* the owner of a miner that has power and asks changes the peer id
C15_Witness ==
    /\ last.method = "updatePeerID" /\ Succeeded(last)
    /\ state.PeerID # pre.PeerID
    /\ state.Power > 0 /\ state.Asks # <<>>

\* the asks stored before the last call whose expiry is after its height,
\* in their stored order
Survivors == SelectSeq(pre.Asks, LAMBDA a : a.Expiry > last.h)

\* C16: a successful addAsk at height H leaves in the ask list exactly the
\* asks stored before whose expiry is greater than H, unaltered and in
\* their order, followed by the new ask.
C16_PruneKeepsLiveAsks ==
    AddedAsk =>
        /\ Len(state.Asks) = Len(Survivors) + 1
        /\ SubSeq(state.Asks, 1, Len(Survivors)) = Survivors
        /\ NewestAsk.ID = pre.NextAskID
        /\ NewestAsk.Price = last.arg[1]

\* an addAsk that removes an ask expiring at its own height and keeps a
\* later one
C16_Witness ==
    /\ AddedAsk
    /\ \E i \in 1..Len(pre.Asks) : pre.Asks[i].Expiry = last.h
    /\ Survivors # <<>>

\* C17: next_ask_id is greater than the id of every stored ask, so stored
\* ids are pairwise distinct and getAsk finds at most one ask per id: the
\* ask it returns is the only stored ask with that id.
C17_NextAskIdAboveStored ==
    /\ \A i \in 1..Len(state.Asks) : state.Asks[i].ID < state.NextAskID
    /\ \A i, j \in 1..Len(state.Asks) :
            state.Asks[i].ID = state.Asks[j].ID => i = j
    /\ (last.method = "getAsk" /\ Succeeded(last)) =>
            Cardinality({i \in 1..Len(state.Asks) :
                            state.Asks[i].ID = last.arg[1]})
                = Len(last.out)

\* getAsk(1) finds the younger of two stored asks after the ask with id 0
\* was pruned and another one added
C17_Witness ==
    /\ last.method = "getAsk" /\ last.arg[1] = 1 /\ last.out # Nil
    /\ Len(state.Asks) = 2 /\ state.Asks[1].ID = 1

\* the last step was the owner's addAsk, with gas, whose expiry does not
\* fit an unsigned 64-bit integer
InvalidExpiry ==
    /\ last.method = "addAsk"
    /\ last.ctx.gasOK
    /\ last.ctx.From = pre.Owner
    /\ last.arg[2] < 0

\* C18: such an addAsk fails with a revert error and leaves the persisted
\* State as it was: the counter is not advanced and no expired ask is
\* pruned.
C18_InvalidExpiryNoChange ==
    InvalidExpiry =>
        /\ last.err = NewRevertError("expiry was invalid")
        /\ last.code = 1
        /\ last.out = Nil
        /\ state = pre

\* such an addAsk on a miner that stores an expired ask
C18_Witness ==
    /\ InvalidExpiry
    /\ \E i \in 1..Len(state.Asks) : state.Asks[i].Expiry < last.h

\* the last step was a submitPoSt that was accepted
AcceptedPoSt == last.method = "submitPoSt" /\ Succeeded(last)

\* C19: an accepted submitPoSt comes at a height inside the proving window
\* it was made in, proving_period_start <= h <= proving_period_start +
\* ProvingPeriodBlocks, and so later than the PoSt accepted before it.
C19_PoStInsideWindow ==
    AcceptedPoSt =>
        /\ pre.ProvingPeriodStart[1] <= last.h
        /\ last.h <= Deadline
        /\ pre.LastPoSt # Nil => pre.LastPoSt[1] < last.h

\* C20: once set, proving_period_start is the height of the first
\* successful commitSector plus one ProvingPeriodBlocks for every accepted
\* submitPoSt; a commitSector of a miner that has power leaves it as it
\* is; and last_post, once set, is not above proving_period_start.
C20_ProvingStartArithmetic ==
    /\ state.ProvingPeriodStart # Nil =>
            /\ hist.firstCommit # Nil
            /\ state.ProvingPeriodStart[1] =
                    hist.firstCommit[1] + hist.postOk * ProvingPeriodBlocks
    /\ (last.method = "commitSector" /\ pre.Power > 0) =>
            state.ProvingPeriodStart = pre.ProvingPeriodStart
    /\ state.LastPoSt # Nil =>
            /\ state.ProvingPeriodStart # Nil
            /\ state.LastPoSt[1] <= state.ProvingPeriodStart[1]

\* a second sector committed at a later height than the first, after a
\* PoSt was accepted at the very end of the first window
C20_Witness ==
    /\ last.method = "commitSector" /\ Succeeded(last)
    /\ pre.Power > 0 /\ hist.postOk = 1
    /\ last.h > hist.firstCommit[1]
    /\ state.LastPoSt = pre.ProvingPeriodStart

\* the deadline of the current proving window has passed: the chain is
\* beyond proving_period_start + ProvingPeriodBlocks, so no PoSt was
\* accepted for this window (an accepted one would have moved it)
Missed ==
    /\ state.ProvingPeriodStart # Nil
    /\ height > state.ProvingPeriodStart[1] + ProvingPeriodBlocks

\* C21: with heights that never decrease, a missed deadline is final.
\* Every step from a state whose deadline has passed leads to a state
\* whose deadline has passed, with proving_period_start and last_post as
\* they were; no submitPoSt is accepted, and one that passes every other
\* test is rejected as late.
C21_MissedDeadlineIsFinal ==
    [][Missed =>
        /\ Missed'
        /\ state'.ProvingPeriodStart = state.ProvingPeriodStart
        /\ state'.LastPoSt = state.LastPoSt
        /\ last'.method = "submitPoSt" =>
                /\ ~Succeeded(last')
                /\ OwnerPoSt' =>
                        /\ last'.code = 1
                        /\ last'.err = NewRevertError(
                                "submitted PoSt late, need to pay a fee")
      ]_vars

\* a PoSt rejected as late, of a miner with two sectors that missed the
\* deadline of its first window
C21_Witness ==
    /\ OwnerPoSt /\ last.h > Deadline /\ ~Succeeded(last)
    /\ state.Power = 2 /\ hist.postOk = 0
    /\ Missed

\* the last step was a commitSector that succeeded; the key it stored under
CommittedSector == last.method = "commitSector" /\ Succeeded(last)
CommittedKey == FormatUint(last.arg[1])

====
